---- MODULE Spec2Model ----
(***************************************************************************)
(* A model of the user-failure analytics repository:                       *)
(*   - the report cache of the FastAPI server                              *)
(*     (src/user-failure-analysis/server.py, main.py, analyzer.py),        *)
(*   - the Azure Function entry point                                      *)
(*     (src/user-failure-analysis/function_app.py, config.py),             *)
(*   - the two failure-rate binners                                        *)
(*     (src/user-failure-analysis/analyzer.py and src/analyzer.py).        *)
(* Strings are sequences of one-character strings, so that parsing and     *)
(* formatting are computed character by character as the code does.        *)
(***************************************************************************)
EXTENDS Integers, Sequences, FiniteSets, TLC

(***************************************************************************)
(* Bounds of the model.                                                    *)
(***************************************************************************)
MaxRequests == 2        \* requests received by the server in one behaviour

MaxUsers == 2           \* users handed to a binner

MaxTotal == 10          \* sessions of one user

MaxRecords == 3         \* session records handed to an aggregation

MaxFetches == 2         \* fetches from the database in one behaviour

(***************************************************************************)
(* Program constants.                                                      *)
(***************************************************************************)
CacheDurationHours == 24        \* os.getenv("CACHE_DURATION_HOURS", "24")

DbMaxRetries == 3               \* os.getenv("DB_MAX_RETRIES", "3")

(***************************************************************************)
(* State: the server, the Azure Function, the binners.                     *)
(***************************************************************************)
VARIABLES
    clock,            \* index in ClockHours of the present hour
    envForceRefresh,  \* os.getenv("FORCE_REFRESH", "").lower() == "true"
    dirs,             \* the directories that exist
    files,            \* path -> [mt, gen, whole] for the files that exist
    pc,               \* handler -> position in analyze_data
    req,              \* handler -> AnalysisRequest
    run,              \* handler -> number of the request it serves
    dec,              \* handler -> the branch taken at "if not force_refresh and cache_valid"
    snap,             \* handler -> the window's files when the handler resolved the cache
    resp,             \* handler -> the response of the request
    io,               \* handler -> the kinds of I/O done for the request
    nreq              \* requests received so far

srvVars == <<clock, envForceRefresh, dirs, files, pc, req, run, dec, snap,
             resp, io, nreq>>

VARIABLES
    fnPc,       \* position in main and _run_database_analysis
    fnReq,      \* request_data
    fnCfg,      \* the Config's _start_datetime and _end_datetime and the description
    fnOutDir,   \* whether config.output.output_dir exists
    fnDbUrl,    \* whether a database URL is configured
    fnLate,     \* whether the deadline of the request has passed
    fnLateAt,   \* the position at which the deadline passed
    fnIo,       \* the kinds of I/O done for the request
    fnResp,     \* the HTTP response
    fnData      \* what config.execute_query() returned: rows, or an empty frame

fnVars == <<fnPc, fnReq, fnCfg, fnOutDir, fnDbUrl, fnLate, fnLateAt, fnIo, fnResp,
           fnData>>

VARIABLES
    binUsers,     \* the users handed to the binners: [total_sessions, failed_sessions]
    binDone,      \* the binners that have run
    binRangeCol,  \* create_failure_rate_bins: df_copy["bin_range"], one entry per user
    binDist,      \* create_failure_rate_bins: distribution["count"], one entry per label
    binCol,       \* create_interactive_bar_plot: df_all["Bin"], one entry per user
    binCounts,    \* create_interactive_bar_plot: bin_counts, one entry per label
    binRange,     \* create_failure_rate_bins: distribution["range"], one entry per row
    binIndex      \* create_interactive_bar_plot: bin_counts.index, one entry per row

binVars == <<binUsers, binDone, binRangeCol, binDist, binCol, binCounts, binRange,
             binIndex>>

VARIABLES
    aggRecords,    \* the session records: [name, exotel_call_sid_null]
    aggMaxUsers,   \* the max_users argument of process_data
    aggDone,       \* the operations that have run
    aggStats,      \* FailureAnalyzer._processed_stats
    aggSummary,    \* the result of FailureAnalyzer.get_summary_statistics
    aggUserStats,  \* the result of process_data
    aggRunStats,   \* run_analysis: result["data"]["stats"]
    aggVis         \* create_visualization: whether it raised, distribution["percentage"]

aggVars == <<aggRecords, aggMaxUsers, aggDone, aggStats, aggSummary, aggUserStats,
             aggRunStats, aggVis>>

VARIABLES
    connMax,       \* Config.db_max_retries
    connGenClose,  \* whether the interpreter closes a generator that yields again
    connWho,       \* the connector of the present fetch
    connPc,        \* position in the connector
    connRetries,   \* get_connection: retries
    connVar,       \* the local variable connection: 0 for None, or a connection
    connYielded,   \* get_connection: whether the generator has yielded
    connAttempts,  \* psycopg2.connect calls of the present fetch
    connOpen,      \* the connections that are open
    connResult,    \* what the fetch gave its caller
    connCount,     \* psycopg2.connect calls so far that gave a connection
    connFetches    \* fetches started so far

connVars == <<connMax, connGenClose, connWho, connPc, connRetries, connVar, connYielded,
              connAttempts, connOpen, connResult, connCount, connFetches>>

vars == <<srvVars, fnVars, binVars, aggVars, connVars>>

(***************************************************************************)
(* Strings and dates: datetime.strptime(s, "%Y-%m-%d"), str.replace,       *)
(* strftime("%Y%m%d").                                                     *)
(***************************************************************************)
Digits == <<"0", "1", "2", "3", "4", "5", "6", "7", "8", "9">>

IsDigit(c) == \E i \in 1..10 : Digits[i] = c

DigitVal(c) == (CHOOSE i \in 1..10 : Digits[i] = c) - 1

DigitChar(n) == Digits[n + 1]

RECURSIVE NumVal(_)
NumVal(f) ==
    IF f = <<>> THEN 0
    ELSE NumVal(SubSeq(f, 1, Len(f) - 1)) * 10 + DigitVal(f[Len(f)])

AllDigits(f) == \A i \in 1..Len(f) : IsDigit(f[i])

\* s.split("-"): the fields between the dashes
RECURSIVE SplitDash(_)
SplitDash(s) ==
    IF \A i \in 1..Len(s) : s[i] # "-" THEN <<s>>
    ELSE LET i == CHOOSE j \in 1..Len(s) :
                      s[j] = "-" /\ \A k \in 1..(j - 1) : s[k] # "-"
         IN  <<SubSeq(s, 1, i - 1)>> \o SplitDash(SubSeq(s, i + 1, Len(s)))

IsLeap(y) == (y % 4 = 0 /\ y % 100 # 0) \/ y % 400 = 0

DaysInMonth(y, m) ==
    IF m = 2 THEN (IF IsLeap(y) THEN 29 ELSE 28)
    ELSE IF m \in {4, 6, 9, 11} THEN 30 ELSE 31

NoDate == [ok |-> FALSE, y |-> 0, m |-> 0, d |-> 0]

\* %Y is four digits; %m is 1[0-2]|0[1-9]|[1-9]; %d is 3[01]|[12]\d|0[1-9]|[1-9];
\* the whole string must be consumed and the day must exist in the month.
ParseDate(s) ==
    LET f == SplitDash(s) IN
    IF Len(f) # 3 THEN NoDate
    ELSE IF ~(AllDigits(f[1]) /\ AllDigits(f[2]) /\ AllDigits(f[3])) THEN NoDate
    ELSE IF Len(f[1]) # 4 \/ Len(f[2]) \notin {1, 2} \/ Len(f[3]) \notin {1, 2}
         THEN NoDate
    ELSE LET y == NumVal(f[1])
             m == NumVal(f[2])
             d == NumVal(f[3])
         IN  IF y >= 1 /\ m \in 1..12 /\ d >= 1 /\ d <= DaysInMonth(y, m)
             THEN [ok |-> TRUE, y |-> y, m |-> m, d |-> d]
             ELSE NoDate

DateNum(p) == p.y * 10000 + p.m * 100 + p.d

\* s.replace("-", "")
StripDashes(s) == SelectSeq(s, LAMBDA c : c # "-")

\* f"from_{from_date.replace('-', '')}_to_{to_date.replace('-', '')}"
DateRange(from, to) ==
    <<"from_">> \o StripDashes(from) \o <<"_to_">> \o StripDashes(to)

(***************************************************************************)
(* The FastAPI server: POST /api/analyze.                                  *)
(***************************************************************************)
D_1_11 == <<"2", "0", "2", "5", "-", "1", "-", "1", "1">>              \* "2025-1-11"
D_11_1 == <<"2", "0", "2", "5", "-", "1", "1", "-", "1">>              \* "2025-11-1"
D_13_01 == <<"2", "0", "2", "5", "-", "1", "3", "-", "0", "1">>        \* "2025-13-01"

\* the (from_date, to_date) strings a client sends: two windows that pass the
\* validation, one with the dates in the wrong order, one with no such month
ReqWindows ==
    {<<D_1_11, D_1_11>>, <<D_11_1, D_11_1>>,
     <<D_11_1, D_1_11>>, <<D_1_11, D_13_01>>}

\* requests the server holds at the same time
Handlers == {"h1", "h2"}

\* the hours at which the clock is read: ages of 1 h, of 23 h, of exactly the
\* cache duration and of 25 h all occur
ClockHours == <<0, 1, CacheDurationHours, CacheDurationHours + 1>>

\* datetime.now(), in hours
now == ClockHours[clock]

\* the (window, max_users) a client sends: every window with the default
\* max_users, and one window that passes the validation with a max_users above 100
ReqInputs ==
    {<<w, 15>> : w \in ReqWindows} \cup {<<<<D_11_1, D_11_1>>, 101>>}

NoReq == [from_date |-> <<>>, to_date |-> <<>>, max_users |-> 15, force_refresh |-> FALSE]

NoResp == [status |-> 0, cached |-> FALSE, detail |-> "none"]

\* get_report_paths: the four files of a window
ReportPaths(from, to) ==
    LET date_range == DateRange(from, to) IN
    [analysis_html  |-> <<"output", "user_failure_rates", date_range>>,
     analysis_csv   |-> <<"output", "user_failure_stats", date_range>>,
     dashboard_html |-> <<"reports", "user_failure_rates", date_range>>,
     dashboard_csv  |-> <<"reports", "user_failure_stats", date_range>>]

PathsOf(r) == ReportPaths(req[r].from_date, req[r].to_date)

PathSet(r) == {PathsOf(r)[n] : n \in DOMAIN PathsOf(r)}

\* is_cache_valid with the comparison "file_age <= timedelta(...)"
is_cache_valid_inclusive(file_path) ==
    IF file_path \notin DOMAIN files THEN FALSE
    ELSE now - files[file_path].mt <= CacheDurationHours

\* Path(file_path).exists() and file_age < timedelta(hours=cache_duration)
is_cache_valid(file_path) ==
    IF file_path \notin DOMAIN files THEN FALSE
    ELSE now - files[file_path].mt < CacheDurationHours

\* the "try: strptime ... if from_date > to_date: raise ValueError" block
ValidWindow(from, to) ==
    LET f == ParseDate(from)
        t == ParseDate(to)
    IN  f.ok /\ t.ok /\ ~(DateNum(f) > DateNum(t))

\* "except Exception as e: raise HTTPException(status_code=500, detail=str(e))"
\* encloses the whole handler, and HTTPException is an Exception
RaiseInHandler(status, detail) ==
    [status |-> 500, cached |-> FALSE, detail |-> detail]

\* force_refresh without "request.force_refresh or"
force_refresh_env_only(r) == envForceRefresh

\* request.force_refresh or os.getenv("FORCE_REFRESH", "").lower() == "true"
force_refresh(r) == req[r].force_refresh \/ envForceRefresh

cache_valid(r) == \A p \in PathSet(r) : is_cache_valid(p)

\* a handler that never answers from the cache
UseCacheNever(r) == FALSE

\* "if not force_refresh and cache_valid": answer from the cache
UseCache(r) == ~force_refresh(r) /\ cache_valid(r)

\* analyze_data is "async def" and never awaits, and uvicorn.run serves the app
\* on one event loop: a handler runs only when no other handler is running
Running(q) == pc[q] \notin {"idle", "recv"}

\* the handler as a plain "def", which FastAPI runs on a thread pool
EventLoopBypassed(r) == TRUE

EventLoopFree(r) == \A q \in Handlers \ {r} : ~Running(q)

NoFiles == [p \in {} |-> 0]

\* the files among `paths` as they are now
FilesAt(paths) == [p \in paths \cap DOMAIN files |-> files[p]]

WriteFile(path, rec) ==
    [p \in DOMAIN files \cup {path} |-> IF p = path THEN rec ELSE files[p]]

ServerIdle ==
    /\ clock = 1
    /\ envForceRefresh = FALSE
    /\ dirs = {}
    /\ files = NoFiles
    /\ pc = [r \in Handlers |-> "idle"]
    /\ req = [r \in Handlers |-> NoReq]
    /\ run = [r \in Handlers |-> 0]
    /\ dec = [r \in Handlers |-> "none"]
    /\ snap = [r \in Handlers |-> NoFiles]
    /\ resp = [r \in Handlers |-> NoResp]
    /\ io = [r \in Handlers |-> {}]
    /\ nreq = 0

ServerInit ==
    /\ clock = 1
    /\ envForceRefresh \in BOOLEAN
    /\ dirs = {}
    /\ files = NoFiles
    /\ pc = [r \in Handlers |-> "idle"]
    /\ req = [r \in Handlers |-> NoReq]
    /\ run = [r \in Handlers |-> 0]
    /\ dec = [r \in Handlers |-> "none"]
    /\ snap = [r \in Handlers |-> NoFiles]
    /\ resp = [r \in Handlers |-> NoResp]
    /\ io = [r \in Handlers |-> {}]
    /\ nreq = 0

\* a new request arrives while the server may be busy with another
Receive(r) ==
    /\ pc[r] = "idle"
    /\ nreq < MaxRequests
    /\ \E in \in ReqInputs, force \in BOOLEAN :
          req' = [req EXCEPT ![r] = [from_date |-> in[1][1], to_date |-> in[1][2],
                                     max_users |-> in[2], force_refresh |-> force]]
    /\ nreq' = nreq + 1
    /\ run' = [run EXCEPT ![r] = nreq + 1]
    /\ pc' = [pc EXCEPT ![r] = "recv"]
    /\ UNCHANGED <<fnVars, binVars, aggVars, connVars, clock, envForceRefresh, dirs, files, dec, snap, resp, io>>

\* analyze_data, "# Validate dates"
Validate(r) ==
    /\ pc[r] = "recv"
    /\ EventLoopFree(r)
    /\ IF ValidWindow(req[r].from_date, req[r].to_date)
       THEN /\ pc' = [pc EXCEPT ![r] = "paths"]
            /\ resp' = resp
       ELSE /\ pc' = [pc EXCEPT ![r] = "raise"]
            /\ resp' = [resp EXCEPT ![r] = RaiseInHandler(400, "validate")]
    /\ UNCHANGED <<fnVars, binVars, aggVars, connVars, clock, envForceRefresh, dirs, files, req, run, dec, snap,
                   io, nreq>>

\* analyze_data, "# Get report file paths": get_report_paths makes both directories
GetReportPaths(r) ==
    /\ pc[r] = "paths"
    /\ dirs' = dirs \cup {"output", "reports"}
    /\ io' = [io EXCEPT ![r] = @ \cup {"makedirs"}]
    /\ pc' = [pc EXCEPT ![r] = "check"]
    /\ UNCHANGED <<fnVars, binVars, aggVars, connVars, clock, envForceRefresh, files, req, run, dec, snap, resp,
                   nreq>>

\* analyze_data, "# Check if we need to regenerate the reports".
\* Path(file_path).exists() and Path(file_path).stat() raise the OSError of a
\* file whose metadata cannot be read; the exception leaves is_cache_valid and
\* is caught by the "except Exception" of the handler
CheckCache(r) ==
    /\ pc[r] = "check"
    /\ io' = [io EXCEPT ![r] = @ \cup {"stat"}]
    /\ snap' = [snap EXCEPT ![r] = FilesAt(PathSet(r))]
    /\ \E readable \in BOOLEAN :
          IF ~readable
          THEN /\ dec' = dec
               /\ pc' = [pc EXCEPT ![r] = "raise"]
               /\ resp' = [resp EXCEPT ![r] = RaiseInHandler(500, "stat")]
          ELSE IF UseCache(r)
          THEN /\ dec' = [dec EXCEPT ![r] = "Reuse"]
               /\ pc' = [pc EXCEPT ![r] = "return"]
               /\ resp' = [resp EXCEPT ![r] =
                             [status |-> 200, cached |-> TRUE, detail |-> "cached"]]
          ELSE /\ dec' = [dec EXCEPT ![r] = "Regenerate"]
               /\ pc' = [pc EXCEPT ![r] = "fetch"]
               /\ resp' = resp
    /\ UNCHANGED <<fnVars, binVars, aggVars, connVars, clock, envForceRefresh, dirs, files, req, run, nreq>>

\* run_analysis up to fetch_data: a data-source error makes run_analysis return
\* success False, and analyze_data raises
FetchData(r) ==
    /\ pc[r] = "fetch"
    /\ io' = [io EXCEPT ![r] = @ \cup {"run_analysis", "connect"}]
    /\ \E ok \in BOOLEAN :
          IF ok
          THEN /\ pc' = [pc EXCEPT ![r] = "html"]
               /\ resp' = resp
          ELSE /\ pc' = [pc EXCEPT ![r] = "raise"]
               /\ resp' = [resp EXCEPT ![r] = RaiseInHandler(500, "fetch")]
    /\ UNCHANGED <<fnVars, binVars, aggVars, connVars, clock, envForceRefresh, dirs, files, req, run, dec, snap,
                   nreq>>

\* what open(path, "w") and the write after it can leave behind
WriteOutcomes == {"written", "truncated", "unopened"}

\* the file a write of request r leaves at `path`
Written(r, path, outcome) ==
    IF outcome = "unopened" THEN files
    ELSE WriteFile(path, [mt |-> now, gen |-> run[r], whole |-> outcome = "written"])

\* create_visualization, "# Save the visualization"
WriteHtml(r) ==
    /\ pc[r] = "html"
    /\ io' = [io EXCEPT ![r] = @ \cup {"write"}]
    /\ \E outcome \in WriteOutcomes :
          /\ files' = Written(r, PathsOf(r).analysis_html, outcome)
          /\ IF outcome = "written"
             THEN /\ pc' = [pc EXCEPT ![r] = "csv"]
                  /\ resp' = resp
             ELSE /\ pc' = [pc EXCEPT ![r] = "raise"]
                  /\ resp' = [resp EXCEPT ![r] = RaiseInHandler(500, "html")]
    /\ UNCHANGED <<fnVars, binVars, aggVars, connVars, clock, envForceRefresh, dirs, req, run, dec, snap, nreq>>

\* create_visualization, "# Save the raw data"
WriteCsv(r) ==
    /\ pc[r] = "csv"
    /\ \E outcome \in WriteOutcomes :
          /\ files' = Written(r, PathsOf(r).analysis_csv, outcome)
          /\ IF outcome = "written"
             THEN /\ pc' = [pc EXCEPT ![r] = "copyhtml"]
                  /\ resp' = resp
             ELSE /\ pc' = [pc EXCEPT ![r] = "raise"]
                  /\ resp' = [resp EXCEPT ![r] = RaiseInHandler(500, "csv")]
    /\ UNCHANGED <<fnVars, binVars, aggVars, connVars, clock, envForceRefresh, dirs, req, run, dec, snap, io,
                   nreq>>

\* a copy that leaves the destination as it is
CopiedNothing(src, dst) == files

\* shutil.copy2(src, dst): the content and the modification time of src
Copied(src, dst) == WriteFile(dst, files[src])

\* analyze_data, shutil.copy2(analysis_html_path, dashboard_html_path)
CopyHtml(r) ==
    /\ pc[r] = "copyhtml"
    /\ io' = [io EXCEPT ![r] = @ \cup {"copy"}]
    /\ \E ok \in BOOLEAN :
          IF ok
          THEN /\ files' = Copied(PathsOf(r).analysis_html, PathsOf(r).dashboard_html)
               /\ pc' = [pc EXCEPT ![r] = "copycsv"]
               /\ resp' = resp
          ELSE /\ files' = files
               /\ pc' = [pc EXCEPT ![r] = "raise"]
               /\ resp' = [resp EXCEPT ![r] = RaiseInHandler(500, "copyhtml")]
    /\ UNCHANGED <<fnVars, binVars, aggVars, connVars, clock, envForceRefresh, dirs, req, run, dec, snap, nreq>>

\* analyze_data, shutil.copy2(analysis_csv_path, dashboard_csv_path) and the return
CopyCsv(r) ==
    /\ pc[r] = "copycsv"
    /\ \E ok \in BOOLEAN :
          IF ok
          THEN /\ files' = Copied(PathsOf(r).analysis_csv, PathsOf(r).dashboard_csv)
               /\ pc' = [pc EXCEPT ![r] = "return"]
               /\ resp' = [resp EXCEPT ![r] =
                             [status |-> 200, cached |-> FALSE, detail |-> "generated"]]
          ELSE /\ files' = files
               /\ pc' = [pc EXCEPT ![r] = "raise"]
               /\ resp' = [resp EXCEPT ![r] = RaiseInHandler(500, "copycsv")]
    /\ UNCHANGED <<fnVars, binVars, aggVars, connVars, clock, envForceRefresh, dirs, req, run, dec, snap, io,
                   nreq>>

\* the handler returns or its exception leaves it: the response is sent, the
\* handler's frame is gone and the event loop is free again
SendResponse(r) ==
    /\ pc[r] \in {"raise", "return"}
    /\ pc' = [pc EXCEPT ![r] = "idle"]
    /\ req' = [req EXCEPT ![r] = NoReq]
    /\ run' = [run EXCEPT ![r] = 0]
    /\ dec' = [dec EXCEPT ![r] = "none"]
    /\ snap' = [snap EXCEPT ![r] = NoFiles]
    /\ resp' = [resp EXCEPT ![r] = NoResp]
    /\ io' = [io EXCEPT ![r] = {}]
    /\ UNCHANGED <<fnVars, binVars, aggVars, connVars, clock, envForceRefresh, dirs, files, nreq>>

\* time passes; the clock counts hours and a handler is done within seconds
\* (the statement timeout is 60 s), so no hour passes while a handler runs
Tick ==
    /\ clock < Len(ClockHours)
    /\ \A r \in Handlers : ~Running(r)
    /\ clock' = clock + 1
    /\ UNCHANGED <<fnVars, binVars, aggVars, connVars, envForceRefresh, dirs, files, pc, req, run, dec,
                   snap, resp, io, nreq>>

(***************************************************************************)
(* The Azure Function: function_app.main.                                  *)
(***************************************************************************)
\* strftime("%Y-%m-%d") and strftime("%Y%m%d")
Pad2(n) == <<DigitChar(n \div 10), DigitChar(n % 10)>>

Pad4(n) == <<DigitChar(n \div 1000), DigitChar((n \div 100) % 10)>> \o Pad2(n % 100)

FormatDate(p) == Pad4(p.y) \o <<"-">> \o Pad2(p.m) \o <<"-">> \o Pad2(p.d)

FormatCompact(p) == Pad4(p.y) \o Pad2(p.m) \o Pad2(p.d)

\* d - timedelta(days=1)
PrevDay(p) ==
    IF p.d > 1 THEN [p EXCEPT !.d = p.d - 1]
    ELSE IF p.m > 1 THEN [p EXCEPT !.m = p.m - 1, !.d = DaysInMonth(p.y, p.m - 1)]
    ELSE [p EXCEPT !.y = p.y - 1, !.m = 12, !.d = 31]

\* datetime.now(), to the day
Today == [ok |-> TRUE, y |-> 2025, m |-> 6, d |-> 15]

\* the from_date and to_date query parameters: not given (or empty, which is as
\* falsy), a day before Today, a day after Today, a month that does not exist
FnDates == {<<>>, D_1_11, D_11_1, D_13_01}

\* the date_range_days query parameter: 0 stands for "not given"
FnDays == {0, 2, 31}

\* the max_users query parameter
FnMaxUsers == {0, 15, 101}

FnNoReq == [from_date |-> <<>>, to_date |-> <<>>, date_range_days |-> 0, max_users |-> 15]

FnNoCfg == [start |-> NoDate, end |-> NoDate, desc |-> <<>>]

FnNoResp == [status |-> 0, error_type |-> "none"]

\* _parse_request: the keys from_date and to_date are set when one of the two
\* parameters is given, the key date_range_days otherwise when it is given
HasDateKeys(rd) == rd.from_date # <<>> \/ rd.to_date # <<>>

HasDaysKey(rd) == ~HasDateKeys(rd) /\ rd.date_range_days # 0

\* _validate_request: TRUE when it returns {"valid": True}
ValidateRequest(rd) ==
    /\ HasDateKeys(rd) =>
          /\ rd.from_date # <<>> => ParseDate(rd.from_date).ok
          /\ rd.to_date # <<>> => ParseDate(rd.to_date).ok
          /\ (rd.from_date # <<>> /\ rd.to_date # <<>>)
                => ~(DateNum(ParseDate(rd.from_date)) > DateNum(ParseDate(rd.to_date)))
    /\ HasDaysKey(rd) => ~(rd.date_range_days <= 0 \/ rd.date_range_days > 30)
    /\ ~(rd.max_users <= 0 \/ rd.max_users > 100)

\* Config.set_date_range: a missing side defaults to two days ago or to today;
\* ok is FALSE when it raises ValueError
SetDateRange(from, to) ==
    LET f == IF from # <<>> THEN from ELSE FormatDate(PrevDay(PrevDay(Today)))
        t == IF to # <<>> THEN to ELSE FormatDate(Today)
        start == ParseDate(f)
        end == ParseDate(t)
    IN  IF start.ok /\ end.ok /\ ~(DateNum(start) > DateNum(end))
        THEN [ok |-> TRUE, start |-> start, end |-> end]
        ELSE [ok |-> FALSE, start |-> NoDate, end |-> NoDate]

\* Config.get_date_range_description
DateRangeDescription(start, end) ==
    <<"from_">> \o FormatCompact(start) \o <<"_to_">> \o FormatCompact(end)

FnIdle ==
    /\ fnPc = "idle"
    /\ fnReq = FnNoReq
    /\ fnCfg = FnNoCfg
    /\ fnOutDir = FALSE
    /\ fnDbUrl = FALSE
    /\ fnLate = FALSE
    /\ fnLateAt = "none"
    /\ fnIo = {}
    /\ fnResp = FnNoResp
    /\ fnData = "none"

FnInit ==
    /\ fnPc = "idle"
    /\ fnReq = FnNoReq
    /\ fnCfg = FnNoCfg
    /\ fnOutDir \in BOOLEAN
    /\ fnDbUrl \in BOOLEAN
    /\ fnLate = FALSE
    /\ fnLateAt = "none"
    /\ fnIo = {}
    /\ fnResp = FnNoResp
    /\ fnData = "none"

\* the clock never reaching the deadline
TimedOutNever == FALSE

\* datetime.now() >= timeout
TimedOut == fnLate

FnRespond(status, error_type) ==
    /\ fnPc' = "done"
    /\ fnResp' = [status |-> status, error_type |-> error_type]

\* main: _parse_request
FnParseRequest ==
    /\ fnPc = "idle"
    /\ \E from \in FnDates, to \in FnDates, days \in FnDays, users \in FnMaxUsers :
          fnReq' = [from_date |-> from, to_date |-> to, date_range_days |-> days,
                    max_users |-> users]
    /\ fnPc' = "validate"
    /\ UNCHANGED <<srvVars, binVars, aggVars, connVars, fnData, fnCfg, fnOutDir, fnDbUrl, fnLate, fnLateAt, fnIo, fnResp>>

\* main: "# Validate request"
FnValidate ==
    /\ fnPc = "validate"
    /\ IF ValidateRequest(fnReq)
       THEN fnPc' = "config" /\ fnResp' = fnResp
       ELSE FnRespond(400, "ValidationError")
    /\ UNCHANGED <<srvVars, binVars, aggVars, connVars, fnData, fnReq, fnCfg, fnOutDir, fnDbUrl, fnLate, fnLateAt, fnIo>>

\* main: Config() makes the output directory (OutputConfig.__post_init__), then
\* config.validate() and os.makedirs(config.output.output_dir)
FnConfig ==
    /\ fnPc = "config"
    /\ fnOutDir' = TRUE
    /\ fnIo' = fnIo \cup (IF fnOutDir THEN {} ELSE {"mkdir"})
    /\ IF fnDbUrl
       THEN fnPc' = "start" /\ fnResp' = fnResp
       ELSE FnRespond(500, "ConfigurationError")
    /\ UNCHANGED <<srvVars, binVars, aggVars, connVars, fnData, fnReq, fnCfg, fnDbUrl, fnLate, fnLateAt>>

\* _run_database_analysis: "# Check for timeout"
FnCheckTimeout ==
    /\ fnPc = "start"
    /\ IF TimedOut
       THEN FnRespond(500, "TimeoutError")
       ELSE fnPc' = "dates" /\ fnResp' = fnResp
    /\ UNCHANGED <<srvVars, binVars, aggVars, connVars, fnData, fnReq, fnCfg, fnOutDir, fnDbUrl, fnLate, fnLateAt, fnIo>>

\* _run_database_analysis: "# Apply date range parameters"
FnSetDates ==
    /\ fnPc = "dates"
    /\ IF HasDateKeys(fnReq)
       THEN LET sdr == SetDateRange(fnReq.from_date, fnReq.to_date) IN
            IF sdr.ok
            THEN /\ fnCfg' = [start |-> sdr.start, end |-> sdr.end,
                              desc |-> DateRangeDescription(sdr.start, sdr.end)]
                 /\ fnPc' = "testconn"
                 /\ fnResp' = fnResp
            ELSE /\ fnCfg' = fnCfg
                 /\ FnRespond(500, "Unexpected error")
       ELSE /\ fnCfg' = IF HasDaysKey(fnReq)
                        THEN [start |-> NoDate, end |-> Today,
                              desc |-> <<"last_", fnReq.date_range_days, "days">>]
                        ELSE [start |-> PrevDay(PrevDay(Today)), end |-> Today,
                              desc |-> <<>>]
            /\ fnPc' = "testconn"
            /\ fnResp' = fnResp
    /\ UNCHANGED <<srvVars, binVars, aggVars, connVars, fnData, fnReq, fnOutDir, fnDbUrl, fnLate, fnLateAt, fnIo>>

\* _run_database_analysis: "# Test database connection"
FnTestConnection ==
    /\ fnPc = "testconn"
    /\ fnIo' = fnIo \cup {"connect"}
    /\ \E ok \in BOOLEAN :
          IF ok
          THEN fnPc' = "query" /\ fnResp' = fnResp
          ELSE FnRespond(500, "Database error")
    /\ UNCHANGED <<srvVars, binVars, aggVars, connVars, fnData, fnReq, fnCfg, fnOutDir, fnDbUrl, fnLate, fnLateAt>>

\* _run_database_analysis: config.execute_query() and "if data.empty"
FnExecuteQuery ==
    /\ fnPc = "query"
    /\ \E outcome \in {"rows", "empty", "error"} :
          CASE outcome = "rows" -> fnPc' = "fetched" /\ fnResp' = fnResp /\ fnData' = "rows"
            [] outcome = "empty" -> FnRespond(500, "No data found") /\ fnData' = "empty"
            [] outcome = "error" -> FnRespond(500, "Database error") /\ fnData' = fnData
    /\ UNCHANGED <<srvVars, binVars, aggVars, connVars, fnReq, fnCfg, fnOutDir, fnDbUrl, fnLate, fnLateAt, fnIo>>

\* _run_database_analysis: "# Check for timeout before analysis", then the
\* analysis, the summary and the CSV export
FnAnalyze ==
    /\ fnPc = "fetched"
    /\ IF TimedOut
       THEN FnRespond(500, "TimeoutError") /\ fnIo' = fnIo
       ELSE \E ok \in BOOLEAN :
               IF ok
               THEN /\ fnPc' = "plot"
                    /\ fnResp' = fnResp
                    /\ fnIo' = fnIo \cup {"write"}
               ELSE FnRespond(500, "Analysis error") /\ fnIo' = fnIo
    /\ UNCHANGED <<srvVars, binVars, aggVars, connVars, fnData, fnReq, fnCfg, fnOutDir, fnDbUrl, fnLate, fnLateAt>>

\* _run_database_analysis: "# Check for timeout before visualization", then the
\* plot and the success response of main
FnPlot ==
    /\ fnPc = "plot"
    /\ IF TimedOut
       THEN FnRespond(500, "TimeoutError") /\ fnIo' = fnIo
       ELSE /\ fnIo' = fnIo \cup {"plot"}
            /\ \E ok \in BOOLEAN :
                  IF ok THEN FnRespond(200, "none") ELSE FnRespond(500, "Analysis error")
    /\ UNCHANGED <<srvVars, binVars, aggVars, connVars, fnData, fnReq, fnCfg, fnOutDir, fnDbUrl, fnLate, fnLateAt>>

\* the deadline of the request passes
FnDeadline ==
    /\ fnPc \notin {"idle", "done"}
    /\ ~fnLate
    /\ fnLate' = TRUE
    /\ fnLateAt' = fnPc
    /\ UNCHANGED <<srvVars, binVars, aggVars, connVars, fnData, fnPc, fnReq, fnCfg, fnOutDir, fnDbUrl, fnIo, fnResp>>

(***************************************************************************)
(* The binners: create_failure_rate_bins of user-failure-analysis/analyzer *)
(* and the histogram of FailureAnalyzer.create_interactive_bar_plot.       *)
(* A rate is a fraction [num, den] of a percent, so that a comparison with *)
(* a bin edge is exact.                                                    *)
(***************************************************************************)
\* bins = list(range(0, 101, 10))
BinEdges == [i \in 1..11 |-> 10 * (i - 1)]

\* labels = [f"{i}-{i + 10}%" for i in range(0, 100, 10)], by position
BinLabels == 1..10

\* the missing category pd.cut gives a value outside the bins
NaN == 0

\* Series.round(1): n/d to the nearest integer, a half to the even one
RoundHalfEven(n, d) ==
    LET q == n \div d
        rem == n % d
    IN  IF 2 * rem > d \/ (2 * rem = d /\ q % 2 = 1) THEN q + 1 ELSE q

\* numpy.searchsorted(bins, x, side): the edges before the insertion point
SearchSorted(x, side) ==
    Cardinality({i \in DOMAIN BinEdges :
                    IF side = "left"
                    THEN BinEdges[i] * x.den < x.num
                    ELSE BinEdges[i] * x.den <= x.num})

\* pd.cut(x, bins, labels, include_lowest, right): the position of the label
Cut(x, include_lowest, right) ==
    LET ids == IF include_lowest /\ x.num = BinEdges[1] * x.den
               THEN 1
               ELSE SearchSorted(x, IF right THEN "left" ELSE "right")
    IN  IF ids = 0 \/ ids = Len(BinEdges) THEN NaN ELSE ids

\* process_data: (failed_sessions / total_sessions * 100).round(1)
RoundedRate(u) ==
    [num |-> RoundHalfEven(1000 * u.failed_sessions, u.total_sessions), den |-> 10]

\* calculate_failure_rates: failed_sessions / total_sessions, then
\* create_interactive_bar_plot: stat.failure_rate * 100
PercentRate(u) == [num |-> 100 * u.failed_sessions, den |-> u.total_sessions]

UserStats ==
    {[total_sessions |-> t, failed_sessions |-> f] : t \in 1..MaxTotal, f \in 0..MaxTotal}

\* the order both aggregations leave: failure rate descending, then total
\* sessions descending
BinSorted(s) ==
    \A i, j \in DOMAIN s :
        i < j =>
            LET a == s[i].failed_sessions * s[j].total_sessions
                b == s[j].failed_sessions * s[i].total_sessions
            IN  a > b \/ (a = b /\ s[i].total_sessions >= s[j].total_sessions)

BinInputs ==
    UNION {{s \in [1..n -> UserStats] :
               /\ \A i \in 1..n : s[i].failed_sessions <= s[i].total_sessions
               /\ BinSorted(s)} : n \in 1..MaxUsers}

BinIdle ==
    /\ binUsers = <<>>
    /\ binDone = {}
    /\ binRangeCol = <<>>
    /\ binDist = <<>>
    /\ binCol = <<>>
    /\ binCounts = <<>>
    /\ binRange = <<>>
    /\ binIndex = <<>>

BinInit ==
    /\ binUsers \in BinInputs
    /\ binDone = {}
    /\ binRangeCol = <<>>
    /\ binDist = <<>>
    /\ binCol = <<>>
    /\ binCounts = <<>>
    /\ binRange = <<>>
    /\ binIndex = <<>>

\* all_ranges = pd.DataFrame({"range": labels})
AllRanges == [i \in 1..Cardinality(BinLabels) |-> i]

\* the rows of a table whose column col is value
RowsWith(table, col, value) == {i \in DOMAIN table : table[i][col] = value}

\* df_copy.groupby("bin_range", observed=True) ... ["count"]: one row for each
\* label that has users, in the order of the labels, with the number of users
GroupObserved(bin_range) ==
    LET observed == {bin_range[i] : i \in DOMAIN bin_range} \ {NaN}
        rank(l) == Cardinality({o \in observed : o <= l})
    IN  [n \in 1..Cardinality(observed) |->
            LET l == CHOOSE o \in observed : rank(o) = n
            IN  [range |-> l,
                 count |-> Cardinality({i \in DOMAIN bin_range : bin_range[i] = l})]]

\* a merge that keeps only the labels that have users
merge_inner(all_ranges, distribution) == distribution

\* pd.merge(all_ranges, distribution, on="range", how="left").fillna({"count": 0})
merge_left(all_ranges, distribution) ==
    [n \in DOMAIN all_ranges |->
        LET rows == RowsWith(distribution, "range", all_ranges[n])
        IN  [range |-> all_ranges[n],
             count |-> IF rows = {} THEN 0
                       ELSE distribution[CHOOSE i \in rows : TRUE].count]]

\* Series.value_counts() of a categorical column, then sort_index(): one row
\* for each category, in the order of the categories; a missing value is not
\* counted
ValueCountsSorted(col) ==
    [n \in DOMAIN AllRanges |->
        [range |-> AllRanges[n],
         count |-> Cardinality({i \in DOMAIN col : col[i] = AllRanges[n]})]]

Column(table, col) == [n \in DOMAIN table |-> table[n][col]]

\* user-failure-analysis/analyzer.py: the bin column, the observed groups and
\* their sizes, then the merge with all the labels and fillna(count 0)
create_failure_rate_bins ==
    /\ "create_failure_rate_bins" \notin binDone
    /\ LET bin_range == [i \in DOMAIN binUsers |-> Cut(RoundedRate(binUsers[i]), TRUE, TRUE)]
           distribution == merge_left(AllRanges, GroupObserved(bin_range))
       IN  /\ binRangeCol' = bin_range
           /\ binRange' = Column(distribution, "range")
           /\ binDist' = Column(distribution, "count")
    /\ binDone' = binDone \cup {"create_failure_rate_bins"}
    /\ UNCHANGED <<srvVars, fnVars, aggVars, connVars, binUsers, binCol, binCounts, binIndex>>

\* analyzer.py: df_all["Bin"], then value_counts().sort_index() over the
\* categories
create_interactive_bar_plot ==
    /\ "create_interactive_bar_plot" \notin binDone
    /\ LET Bin == [i \in DOMAIN binUsers |-> Cut(PercentRate(binUsers[i]), TRUE, FALSE)]
           bin_counts == ValueCountsSorted(Bin)
       IN  /\ binCol' = Bin
           /\ binIndex' = Column(bin_counts, "range")
           /\ binCounts' = Column(bin_counts, "count")
    /\ binDone' = binDone \cup {"create_interactive_bar_plot"}
    /\ UNCHANGED <<srvVars, fnVars, aggVars, connVars, binUsers, binRangeCol, binDist, binRange>>

(***************************************************************************)
(* The aggregations: FailureAnalyzer.calculate_failure_rates and           *)
(* get_summary_statistics of analyzer.py, process_data and the statistics  *)
(* of run_analysis of user-failure-analysis/main.py.                        *)
(* A rate or a statistic is a fraction [num, den]; 0/0 is the nan that a   *)
(* division of zero by zero gives.                                         *)
(***************************************************************************)
\* the name column of the query's rows
AggNames == {<<"a">>, <<"a", " ">>, <<"b">>}

\* the max_users the server hands to run_analysis
AggMaxUsersChoices == {1, 15}

SessionRecords == {[name |-> n, exotel_call_sid_null |-> f] : n \in AggNames, f \in BOOLEAN}

RecordSeqs == UNION {[1..n -> SessionRecords] : n \in 0..MaxRecords}

\* ord(c) for the characters of the names
Ord(c) == CASE c = " " -> 32 [] c = "a" -> 97 [] c = "b" -> 98

\* s < t for two str
RECURSIVE StrLess(_, _)
StrLess(s, t) ==
    IF t = <<>> THEN FALSE
    ELSE IF s = <<>> THEN TRUE
    ELSE IF Ord(Head(s)) # Ord(Head(t)) THEN Ord(Head(s)) < Ord(Head(t))
    ELSE StrLess(Tail(s), Tail(t))

\* str.strip(): without the leading and the trailing whitespace
RECURSIVE Strip(_)
Strip(s) ==
    IF s = <<>> THEN s
    ELSE IF Head(s) = " " THEN Strip(Tail(s))
    ELSE IF s[Len(s)] = " " THEN Strip(SubSeq(s, 1, Len(s) - 1))
    ELSE s

\* a grouping that takes the names as they are
KeepName(s) == s

\* DataFrame.groupby(key): the keys, in ascending order
GroupKeys(names) ==
    LET keys == {names[i] : i \in DOMAIN names}
    IN  [n \in 1..Cardinality(keys) |->
            CHOOSE k \in keys : Cardinality({j \in keys : StrLess(j, k)}) = n - 1]

Frac(n, d) == [num |-> n, den |-> d]

Zero == Frac(0, 1)

IsNaN(x) == x.den = 0

\* a success count that forgets the failures
success_sessions_all(total_sessions, failed_sessions) == total_sessions

\* success_sessions = total_sessions - failed_sessions
success_sessions(total_sessions, failed_sessions) == total_sessions - failed_sessions

\* the sort key (-x.failure_rate, -x.total_sessions): TRUE when the key of u
\* is less than the key of v
KeyLess(u, v) ==
    LET a == u.failed_sessions * v.total_sessions
        b == v.failed_sessions * u.total_sessions
    IN  a > b \/ (a = b /\ u.total_sessions > v.total_sessions)

\* list.sort(key): a stable sort, equal keys stay in the order they had
StableSort(seq) ==
    LET before(i, j) == KeyLess(seq[i], seq[j]) \/ (~KeyLess(seq[j], seq[i]) /\ i < j)
    IN  [n \in DOMAIN seq |->
            seq[CHOOSE i \in DOMAIN seq :
                    Cardinality({j \in DOMAIN seq : before(j, i)}) = n - 1]]

\* FailureAnalyzer.calculate_failure_rates: the names stripped, one
\* UserFailureStats for each group, sorted
CalculateFailureRates(records) ==
    LET name == [i \in DOMAIN records |-> Strip(records[i].name)]
        keys == GroupKeys(name)
        user_stats ==
            [n \in DOMAIN keys |->
                LET user_data == {i \in DOMAIN records : name[i] = keys[n]}
                    total == Cardinality(user_data)
                    failed == Cardinality({i \in user_data : records[i].exotel_call_sid_null})
                    success == success_sessions(total, failed)
                IN  [name |-> keys[n],
                     total_sessions |-> total,
                     failed_sessions |-> failed,
                     failure_rate |-> IF total > 0 THEN Frac(failed, total) ELSE Zero,
                     success_sessions |-> success,
                     success_rate |-> IF total > 0 THEN Frac(success, total) ELSE Zero]]
    IN  StableSort(user_stats)

\* sum(stat.total_sessions ...) over the first n entries
RECURSIVE SumTotal(_, _)
SumTotal(seq, n) == IF n = 0 THEN 0 ELSE seq[n].total_sessions + SumTotal(seq, n - 1)

\* sum(stat.failed_sessions ...) over the first n entries
RECURSIVE SumFailed(_, _)
SumFailed(seq, n) == IF n = 0 THEN 0 ELSE seq[n].failed_sessions + SumFailed(seq, n - 1)

\* a common denominator of the rates: the product of the totals
RECURSIVE ProductTotal(_, _)
ProductTotal(seq, n) == IF n = 0 THEN 1 ELSE seq[n].total_sessions * ProductTotal(seq, n - 1)

\* the rate of u over the denominator P
Scaled(u, P) == u.failed_sessions * (P \div u.total_sessions)

\* the sum of the rates over the denominator P
RECURSIVE SumScaled(_, _, _)
SumScaled(seq, P, n) == IF n = 0 THEN 0 ELSE Scaled(seq[n], P) + SumScaled(seq, P, n - 1)

\* the sum of the squared distances of the rates to their mean total/(k P),
\* over the denominator (k P)^2
RECURSIVE SumSquares(_, _, _, _, _)
SumSquares(seq, P, total, k, n) ==
    IF n = 0 THEN 0
    ELSE (k * Scaled(seq[n], P) - total) * (k * Scaled(seq[n], P) - total)
            + SumSquares(seq, P, total, k, n - 1)

\* np.mean(failure_rates): the sum over the length, nan for an empty list
Mean(stats) ==
    LET P == ProductTotal(stats, Len(stats))
    IN  Frac(SumScaled(stats, P, Len(stats)), Len(stats) * P)

\* np.median of the rates, which are in descending order
Median(stats) ==
    LET n == Len(stats)
        lo == stats[(n + 1) \div 2].failure_rate
        hi == stats[(n \div 2) + 1].failure_rate
    IN  Frac(lo.num * hi.den + hi.num * lo.den, 2 * lo.den * hi.den)

\* np.max and np.min of the rates, which are in descending order
Max(stats) == stats[1].failure_rate

Min(stats) == stats[Len(stats)].failure_rate

\* np.std of the rates, kept as its square: the mean of the squared distances
\* to the mean
StdSquared(stats) ==
    LET n == Len(stats)
        P == ProductTotal(stats, n)
        total == SumScaled(stats, P, n)
    IN  Frac(SumSquares(stats, P, total, n, n), n * n * n * P * P)

\* FailureAnalyzer.get_summary_statistics
SummaryStatistics(stats) ==
    LET total_sessions == SumTotal(stats, Len(stats))
        total_failures == SumFailed(stats, Len(stats))
        failure_rates == Len(stats) > 0
    IN  [total_users |-> Len(stats),
         total_sessions |-> total_sessions,
         total_failures |-> total_failures,
         overall_failure_rate |->
             IF total_sessions > 0 THEN Frac(total_failures, total_sessions) ELSE Zero,
         avg_user_failure_rate |-> Mean(stats),
         median_user_failure_rate |-> IF failure_rates THEN Median(stats) ELSE Zero,
         max_user_failure_rate |-> IF failure_rates THEN Max(stats) ELSE Zero,
         min_user_failure_rate |-> IF failure_rates THEN Min(stats) ELSE Zero,
         std_user_failure_rate |-> IF failure_rates THEN StdSquared(stats) ELSE Zero]

\* process_data: one row for each name, with the failure rate in tenths of a
\* percent
UserStatsRows(records) ==
    LET name == [i \in DOMAIN records |-> KeepName(records[i].name)]
        keys == GroupKeys(name)
    IN  [n \in DOMAIN keys |->
            LET user_data == {i \in DOMAIN records : name[i] = keys[n]}
                total == Cardinality(user_data)
                failed == Cardinality({i \in user_data : records[i].exotel_call_sid_null})
            IN  [user |-> keys[n],
                 total_sessions |-> total,
                 failed_sessions |-> failed,
                 failure_rate |-> RoundHalfEven(1000 * failed, total)]]

\* DataFrame.sort_values("failure_rate", ascending=False) with the default
\* quicksort: every order of the rows in which the rate does not increase
SortValuesDescending(rows) ==
    LET perms == {p \in [DOMAIN rows -> DOMAIN rows] :
                     \A i, j \in DOMAIN rows : i # j => p[i] # p[j]}
    IN  {[n \in DOMAIN rows |-> rows[p[n]]] : p \in
            {q \in perms : \A i, j \in DOMAIN rows :
                i < j => rows[q[i]].failure_rate >= rows[q[j]].failure_rate}}

\* DataFrame.head(n)
HeadRows(rows, n) == IF Len(rows) > n THEN SubSeq(rows, 1, n) ELSE rows

\* process_data: the results it can return
ProcessData(records, max_users) ==
    IF records = <<>> THEN {<<>>}
    ELSE {HeadRows(sorted, max_users) : sorted \in SortValuesDescending(UserStatsRows(records))}

\* run_analysis: "# Calculate summary statistics"
RunStats(df_processed) ==
    LET total_sessions == SumTotal(df_processed, Len(df_processed))
        failed_sessions == SumFailed(df_processed, Len(df_processed))
    IN  [total_users |-> Len(df_processed),
         total_sessions |-> total_sessions,
         failed_sessions |-> failed_sessions,
         overall_failure_rate |->
             IF total_sessions > 0 THEN Frac(failed_sessions * 100, total_sessions) ELSE Zero]

NoSummary == [total_users |-> 0 - 1]

NoVis == [raised |-> FALSE, percentage |-> <<>>]

\* (distribution["count"] / total_users * 100).round(1): a Series divided by
\* zero gives nan for a count of zero, and round keeps it
Percentage(count, total_users) ==
    IF total_users = 0 THEN Frac(0, 0)
    ELSE Frac(RoundHalfEven(1000 * count, total_users), 10)

\* what the pandas calls of create_failure_rate_bins do with a frame that has
\* no row: DataFrame.apply(axis=1) gives back a frame, which a build either
\* takes as the new column or refuses with ValueError
EmptyFrameOutcomes == {"distribution", "ValueError"}

AggIdle ==
    /\ aggRecords = <<>>
    /\ aggMaxUsers = 15
    /\ aggDone = {}
    /\ aggStats = <<>>
    /\ aggSummary = NoSummary
    /\ aggUserStats = <<>>
    /\ aggRunStats = NoSummary
    /\ aggVis = NoVis

AggInit ==
    /\ aggRecords \in RecordSeqs
    /\ aggMaxUsers \in AggMaxUsersChoices
    /\ aggDone = {}
    /\ aggStats = <<>>
    /\ aggSummary = NoSummary
    /\ aggUserStats = <<>>
    /\ aggRunStats = NoSummary
    /\ aggVis = NoVis

\* analyzer.py: FailureAnalyzer.calculate_failure_rates
calculate_failure_rates ==
    /\ "calculate_failure_rates" \notin aggDone
    /\ aggStats' = CalculateFailureRates(aggRecords)
    /\ aggDone' = aggDone \cup {"calculate_failure_rates"}
    /\ UNCHANGED <<srvVars, fnVars, binVars, connVars, aggRecords, aggMaxUsers, aggSummary,
                   aggUserStats, aggRunStats, aggVis>>

\* analyzer.py: FailureAnalyzer.get_summary_statistics, which calculates the
\* rates first when nobody has
get_summary_statistics ==
    /\ "get_summary_statistics" \notin aggDone
    /\ LET stats == IF "calculate_failure_rates" \in aggDone THEN aggStats
                    ELSE CalculateFailureRates(aggRecords)
       IN  /\ aggStats' = stats
           /\ aggSummary' = SummaryStatistics(stats)
    /\ aggDone' = aggDone \cup {"calculate_failure_rates", "get_summary_statistics"}
    /\ UNCHANGED <<srvVars, fnVars, binVars, connVars, aggRecords, aggMaxUsers, aggUserStats,
                   aggRunStats, aggVis>>

\* user-failure-analysis/main.py: process_data
process_data ==
    /\ "process_data" \notin aggDone
    /\ aggUserStats' \in ProcessData(aggRecords, aggMaxUsers)
    /\ aggDone' = aggDone \cup {"process_data"}
    /\ UNCHANGED <<srvVars, fnVars, binVars, connVars, aggRecords, aggMaxUsers, aggStats,
                   aggSummary, aggRunStats, aggVis>>

\* user-failure-analysis/main.py: run_analysis, the statistics of the result
run_analysis_stats ==
    /\ "process_data" \in aggDone
    /\ "run_analysis" \notin aggDone
    /\ aggRunStats' = RunStats(aggUserStats)
    /\ aggDone' = aggDone \cup {"run_analysis"}
    /\ UNCHANGED <<srvVars, fnVars, binVars, connVars, aggRecords, aggMaxUsers, aggStats,
                   aggSummary, aggUserStats, aggVis>>

\* user-failure-analysis/analyzer.py: create_visualization up to "# Calculate
\* percentages", on the frame run_analysis hands it
create_visualization ==
    /\ "process_data" \in aggDone
    /\ "create_visualization" \notin aggDone
    /\ LET df == aggUserStats
           total_users == Len(df)
           bin_range == [i \in DOMAIN df |-> Cut(Frac(df[i].failure_rate, 10), TRUE, TRUE)]
           distribution == merge_left(AllRanges, GroupObserved(bin_range))
           percentage == [n \in DOMAIN distribution |->
                             Percentage(distribution[n].count, total_users)]
       IN  \E outcome \in (IF total_users = 0 THEN EmptyFrameOutcomes ELSE {"distribution"}) :
              aggVis' = IF outcome = "distribution"
                        THEN [raised |-> FALSE, percentage |-> percentage]
                        ELSE [raised |-> TRUE, percentage |-> <<>>]
    /\ aggDone' = aggDone \cup {"create_visualization"}
    /\ UNCHANGED <<srvVars, fnVars, binVars, connVars, aggRecords, aggMaxUsers, aggStats,
                   aggSummary, aggUserStats, aggRunStats>>

(***************************************************************************)
(* The connectors: Config.get_connection under Config.execute_query        *)
(* (config.py, the same code in user-failure-analysis/config.py) and       *)
(* fetch_data of user-failure-analysis/main.py.                            *)
(***************************************************************************)
\* the values of DB_MAX_RETRIES
MaxRetriesChoices == 1..DbMaxRetries

Connectors == {"get_connection", "fetch_data"}

\* what a psycopg2.connect call does
ConnectOutcomes == {"connected", "psycopg2.Error"}

\* what the body of the with statement, or the query of fetch_data, does
BodyOutcomes == {"returns", "psycopg2.Error", "Exception"}

ConnIdle ==
    /\ connMax = DbMaxRetries
    /\ connGenClose = FALSE
    /\ connWho = "none"
    /\ connPc = "idle"
    /\ connRetries = 0
    /\ connVar = 0
    /\ connYielded = FALSE
    /\ connAttempts = 0
    /\ connOpen = {}
    /\ connResult = "none"
    /\ connCount = 0
    /\ connFetches = 0

ConnInit ==
    /\ connMax \in MaxRetriesChoices
    /\ connGenClose \in BOOLEAN
    /\ connWho = "none"
    /\ connPc = "idle"
    /\ connRetries = 0
    /\ connVar = 0
    /\ connYielded = FALSE
    /\ connAttempts = 0
    /\ connOpen = {}
    /\ connResult = "none"
    /\ connCount = 0
    /\ connFetches = 0

\* finally: if connection: connection.close()
CloseInFinally(open, connection) == open \ {connection}

\* the caller starts a fetch: execute_query enters "with self.get_connection()",
\* or fetch_data reaches its inner try
StartFetch(who) ==
    /\ connPc \in {"idle", "returned"}
    /\ connFetches < MaxFetches
    /\ connFetches' = connFetches + 1
    /\ connWho' = who
    /\ connPc' = IF who = "get_connection" THEN "while" ELSE "connect"
    /\ connRetries' = 0
    /\ connVar' = 0
    /\ connYielded' = FALSE
    /\ connAttempts' = 0
    /\ connResult' = "none"
    /\ UNCHANGED <<srvVars, fnVars, binVars, aggVars, connMax, connGenClose, connOpen,
                   connCount>>

\* get_connection: one turn of "while retries < self.db_max_retries" up to the
\* yield, or through the except and finally clauses when the connect fails.
\* A second yield is an error of the context manager ("generator didn't stop
\* after throw()"): the generator stays suspended at the yield unless the
\* interpreter closes it.
GetConnectionAttempt ==
    /\ connWho = "get_connection"
    /\ connPc = "while"
    /\ connRetries < connMax
    /\ connAttempts' = connAttempts + 1
    /\ \E outcome \in ConnectOutcomes :
          IF outcome = "connected"
          THEN /\ connCount' = connCount + 1
               /\ connVar' = connCount + 1
               /\ connRetries' = connRetries
               /\ connYielded' = TRUE
               /\ IF connYielded
                  THEN /\ connOpen' = IF connGenClose
                                      THEN CloseInFinally(connOpen \cup {connCount + 1},
                                                          connCount + 1)
                                      ELSE connOpen \cup {connCount + 1}
                       /\ connResult' = "RuntimeError"
                       /\ connPc' = "returned"
                  ELSE /\ connOpen' = connOpen \cup {connCount + 1}
                       /\ connResult' = connResult
                       /\ connPc' = "body"
          ELSE /\ connCount' = connCount
               /\ connVar' = connVar
               /\ connRetries' = connRetries + 1
               /\ connYielded' = connYielded
               /\ connOpen' = CloseInFinally(connOpen, connVar)
               /\ IF connRetries + 1 >= connMax
                  THEN connResult' = "DatabaseError" /\ connPc' = "returned"
                  ELSE connResult' = connResult /\ connPc' = "while"
    /\ UNCHANGED <<srvVars, fnVars, binVars, aggVars, connMax, connGenClose, connWho,
                   connFetches>>

\* execute_query: the body of the with statement ends; the generator is
\* resumed, or the exception of the body is thrown into it at the yield
WithBody ==
    /\ connWho = "get_connection"
    /\ connPc = "body"
    /\ connOpen' = CloseInFinally(connOpen, connVar)
    /\ \E outcome \in BodyOutcomes :
          CASE outcome = "returns" ->
                  /\ connRetries' = connRetries
                  /\ connResult' = "rows"
                  /\ connPc' = "returned"
            [] outcome = "Exception" ->
                  /\ connRetries' = connRetries
                  /\ connResult' = "Exception"
                  /\ connPc' = "returned"
            [] outcome = "psycopg2.Error" ->
                  /\ connRetries' = connRetries + 1
                  /\ IF connRetries + 1 >= connMax
                     THEN connResult' = "DatabaseError" /\ connPc' = "returned"
                     ELSE connResult' = connResult /\ connPc' = "while"
    /\ UNCHANGED <<srvVars, fnVars, binVars, aggVars, connMax, connGenClose, connWho,
                   connVar, connYielded, connAttempts, connCount, connFetches>>

\* fetch_data: connection = psycopg2.connect(db_url); a failure leaves the
\* function through "finally: if connection" and "except Exception: raise"
FetchDataConnect ==
    /\ connWho = "fetch_data"
    /\ connPc = "connect"
    /\ connAttempts' = connAttempts + 1
    /\ \E outcome \in ConnectOutcomes :
          IF outcome = "connected"
          THEN /\ connCount' = connCount + 1
               /\ connVar' = connCount + 1
               /\ connOpen' = connOpen \cup {connCount + 1}
               /\ connResult' = connResult
               /\ connPc' = "query"
          ELSE /\ connCount' = connCount
               /\ connVar' = connVar
               /\ connOpen' = CloseInFinally(connOpen, connVar)
               /\ connResult' = "psycopg2.Error"
               /\ connPc' = "returned"
    /\ UNCHANGED <<srvVars, fnVars, binVars, aggVars, connMax, connGenClose, connWho,
                   connRetries, connYielded, connFetches>>

\* fetch_data: the statement timeout and the query, then "finally: if
\* connection: connection.close()"
FetchDataQuery ==
    /\ connWho = "fetch_data"
    /\ connPc = "query"
    /\ connOpen' = CloseInFinally(connOpen, connVar)
    /\ \E outcome \in BodyOutcomes :
          connResult' = IF outcome = "returns" THEN "rows" ELSE outcome
    /\ connPc' = "returned"
    /\ UNCHANGED <<srvVars, fnVars, binVars, aggVars, connMax, connGenClose, connWho,
                   connRetries, connVar, connYielded, connAttempts, connCount,
                   connFetches>>

ServerNext ==
    \/ \E r \in Handlers :
          \/ Receive(r)
          \/ Validate(r)
          \/ GetReportPaths(r)
          \/ CheckCache(r)
          \/ FetchData(r)
          \/ WriteHtml(r)
          \/ WriteCsv(r)
          \/ CopyHtml(r)
          \/ CopyCsv(r)
          \/ SendResponse(r)
    \/ Tick

FnNext ==
    \/ FnParseRequest
    \/ FnValidate
    \/ FnConfig
    \/ FnCheckTimeout
    \/ FnSetDates
    \/ FnTestConnection
    \/ FnExecuteQuery
    \/ FnAnalyze
    \/ FnPlot
    \/ FnDeadline

\* the server, with the function and the binners at rest
Init == ServerInit /\ FnIdle /\ BinIdle /\ AggIdle /\ ConnIdle

Next == ServerNext

Spec == Init /\ [][Next]_vars

\* the function, with the server and the binners at rest
InitFn == FnInit /\ ServerIdle /\ BinIdle /\ AggIdle /\ ConnIdle

SpecFn == InitFn /\ [][FnNext]_vars

BinNext ==
    \/ create_failure_rate_bins
    \/ create_interactive_bar_plot

\* the binners, with the server and the function at rest
InitBin == BinInit /\ ServerIdle /\ FnIdle /\ AggIdle /\ ConnIdle

SpecBin == InitBin /\ [][BinNext]_vars

AggNext ==
    \/ calculate_failure_rates
    \/ get_summary_statistics
    \/ process_data
    \/ run_analysis_stats
    \/ create_visualization

\* the aggregations, with the server, the function and the binners at rest
InitAgg == AggInit /\ ServerIdle /\ FnIdle /\ BinIdle /\ ConnIdle

SpecAgg == InitAgg /\ [][AggNext]_vars

ConnNext ==
    \/ \E who \in Connectors : StartFetch(who)
    \/ GetConnectionAttempt
    \/ WithBody
    \/ FetchDataConnect
    \/ FetchDataQuery

\* the connectors, with everything else at rest
InitConn == ConnInit /\ ServerIdle /\ FnIdle /\ BinIdle /\ AggIdle

SpecConn == InitConn /\ [][ConnNext]_vars

(***************************************************************************)
(* The report cache: claims C1 to C6.                                      *)
(***************************************************************************)
WindowKey(r) == DateRange(req[r].from_date, req[r].to_date)

\* every file of the window exists and is younger than the cache duration
AllFresh(r) ==
    \A p \in PathSet(r) :
        p \in DOMAIN files /\ now - files[p].mt < CacheDurationHours

\* the step in which handler r resolves the cache
Resolves(r) == pc[r] = "check" /\ pc'[r] \in {"return", "fetch"}

Regenerating(r) == pc[r] \in {"fetch", "html", "csv", "copyhtml", "copycsv"}

PublishedPaths(r) == {PathsOf(r).dashboard_html, PathsOf(r).dashboard_csv}

PublishedNow(r) == FilesAt(PublishedPaths(r))

PublishedBefore(r) ==
    [p \in PublishedPaths(r) \cap DOMAIN snap[r] |-> snap[r][p]]

PublishedAllNew(r) ==
    /\ DOMAIN PublishedNow(r) = PublishedPaths(r)
    /\ \A p \in PublishedPaths(r) : files[p].gen = run[r]

\* C4: at every point of a regeneration the published files of the window are
\* all those of the previous generation or all those of the new one.
C4_NoMixedGenerations ==
    \A r \in Handlers :
        Regenerating(r) => (PublishedNow(r) = PublishedBefore(r) \/ PublishedAllNew(r))

\* C5: when a regeneration fails the error is surfaced and the published files
\* of the window are exactly those from before the attempt.
C5_FailureLeavesPublished ==
    \A r \in Handlers :
        (pc[r] = "raise" /\ dec[r] = "Regenerate")
            => (resp[r].status >= 400 /\ PublishedNow(r) = PublishedBefore(r))

\* the (start date, end date) a request denotes
WindowOf(r) == <<DateNum(ParseDate(req[r].from_date)), DateNum(ParseDate(req[r].to_date))>>

Accepted(r) == req[r] # NoReq /\ ValidWindow(req[r].from_date, req[r].to_date)

\* C6: two accepted requests get the same window key if and only if they
\* denote the same (start date, end date).
C6_KeyInjective ==
    \A r, q \in Handlers :
        (Accepted(r) /\ Accepted(q)) => (WindowKey(r) = WindowKey(q) <=> WindowOf(r) = WindowOf(q))

(***************************************************************************)
(* Validation before I/O: claim C7.                                        *)
(***************************************************************************)
\* the window the function works on: a side that is not given is two days
\* ago, or today
FnWindowStart == IF fnReq.from_date # <<>> THEN ParseDate(fnReq.from_date)
                 ELSE PrevDay(PrevDay(Today))

FnWindowEnd == IF fnReq.to_date # <<>> THEN ParseDate(fnReq.to_date) ELSE Today

FnWindowInvalid ==
    /\ HasDateKeys(fnReq)
    /\ \/ ~FnWindowStart.ok
       \/ ~FnWindowEnd.ok
       \/ DateNum(FnWindowStart) > DateNum(FnWindowEnd)

\* C7: a request whose window is invalid (a date that is not YYYY-MM-DD, or a
\* start after the end) is rejected before any I/O: no directory is made, no
\* file written, no connection opened for it.
C7_RejectedBeforeIO == FnWindowInvalid => fnIo = {}

(***************************************************************************)
(* The ten bands: claims C8 to C10.                                        *)
(***************************************************************************)
RECURSIVE SumTo(_, _)
SumTo(s, n) == IF n = 0 THEN 0 ELSE s[n] + SumTo(s, n - 1)

\* the position of the band "10k-(10k+10)%"
Band(k) == k + 1

\* C8: bands are half-open [low, low+10): for every k in 1..9 a user whose
\* failure rate is exactly 10k percent is in the band "10k-(10k+10)%", not in
\* the band below; a rate of exactly 10% is in "10-20%".
C8_EdgeInUpperBand ==
    \A i \in DOMAIN binUsers : \A k \in 1..9 :
        100 * binUsers[i].failed_sessions = 10 * k * binUsers[i].total_sessions =>
            /\ "create_failure_rate_bins" \in binDone => binRangeCol[i] = Band(k)
            /\ "create_interactive_bar_plot" \in binDone => binCol[i] = Band(k)

\* C9: the top band is closed on both ends: a user whose every session failed
\* (a rate of exactly 100%) is in the band "90-100%" and is counted there.
C9_FullRateInTopBand ==
    \A i \in DOMAIN binUsers :
        binUsers[i].failed_sessions = binUsers[i].total_sessions =>
            /\ "create_failure_rate_bins" \in binDone =>
                  binRangeCol[i] = Band(9) /\ binDist[Band(9)] >= 1
            /\ "create_interactive_bar_plot" \in binDone =>
                  binCol[i] = Band(9) /\ binCounts[Band(9)] >= 1

\* C10: for a non-empty record set the ten counts add up to the number of
\* users handed to the binner: nobody is dropped, nobody is counted twice.
C10_CountsSumToUsers ==
    Len(binUsers) > 0 =>
        /\ "create_failure_rate_bins" \in binDone => SumTo(binDist, 10) = Len(binUsers)
        /\ "create_interactive_bar_plot" \in binDone => SumTo(binCounts, 10) = Len(binUsers)

SameUser(i) ==
    {j \in DOMAIN aggRecords : Strip(aggRecords[j].name) = Strip(aggRecords[i].name)}

\* the entries of an aggregated sequence that are the user of record i
EntriesOf(entries, field, i) ==
    {n \in DOMAIN entries : Strip(entries[n][field]) = Strip(aggRecords[i].name)}

MergedInto(entries, field, i) ==
    /\ Cardinality(EntriesOf(entries, field, i)) = 1
    /\ \A n \in EntriesOf(entries, field, i) :
          entries[n].total_sessions = Cardinality(SameUser(i))

\* C12: the aggregation groups the records by the trimmed user name: records
\* whose names differ only by leading or trailing whitespace are one user
\* entry, whose total_sessions counts all of them.
C12_TrimmedNamesMerged ==
    \A i \in DOMAIN aggRecords :
        /\ "calculate_failure_rates" \in aggDone => MergedInto(aggStats, "name", i)
        /\ ("process_data" \in aggDone /\ aggMaxUsers >= Len(aggRecords)) =>
              MergedInto(aggUserStats, "user", i)

\* C13: the aggregated users are in the order of failure_rate descending and,
\* for equal rates, total_sessions descending: for every adjacent pair (u, v),
\* u.rate > v.rate, or u.rate = v.rate and u.total_sessions >= v.total_sessions.
C13_OrderedByRateThenTotal ==
    /\ "calculate_failure_rates" \in aggDone =>
          \A n \in 1..(Len(aggStats) - 1) :
              LET u == aggStats[n]
                  v == aggStats[n + 1]
                  a == u.failure_rate.num * v.failure_rate.den
                  b == v.failure_rate.num * u.failure_rate.den
              IN  a > b \/ (a = b /\ u.total_sessions >= v.total_sessions)
    /\ "process_data" \in aggDone =>
          \A n \in 1..(Len(aggUserStats) - 1) :
              LET u == aggUserStats[n]
                  v == aggUserStats[n + 1]
              IN  \/ u.failure_rate > v.failure_rate
                  \/ u.failure_rate = v.failure_rate /\ u.total_sessions >= v.total_sessions

\* the first record of a user entry in the input
FirstRecord(name) ==
    CHOOSE i \in DOMAIN aggRecords :
        /\ Strip(aggRecords[i].name) = Strip(name)
        /\ \A j \in DOMAIN aggRecords : Strip(aggRecords[j].name) = Strip(name) => i <= j

\* C14: users with the same failure_rate and the same total_sessions are in
\* the order in which their first records appear in the input.
C14_TiesInFirstSeenOrder ==
    /\ "calculate_failure_rates" \in aggDone =>
          \A m, n \in DOMAIN aggStats :
              (/\ m < n
               /\ aggStats[m].failed_sessions = aggStats[n].failed_sessions
               /\ aggStats[m].total_sessions = aggStats[n].total_sessions)
                  => FirstRecord(aggStats[m].name) < FirstRecord(aggStats[n].name)
    /\ ("process_data" \in aggDone /\ \A i, j \in DOMAIN aggRecords :
                                          Strip(aggRecords[i].name) = Strip(aggRecords[j].name)
                                              => aggRecords[i].name = aggRecords[j].name) =>
          \A m, n \in DOMAIN aggUserStats :
              (/\ m < n
               /\ aggUserStats[m].failure_rate = aggUserStats[n].failure_rate
               /\ aggUserStats[m].total_sessions = aggUserStats[n].total_sessions)
                  => FirstRecord(aggUserStats[m].user) < FirstRecord(aggUserStats[n].user)

\* C15: every user entry of calculate_failure_rates has total_sessions >= 1,
\* 0 <= failed_sessions <= total_sessions, failed_sessions + success_sessions =
\* total_sessions, failure_rate + success_rate = 1, failed_sessions the number
\* of the user's records without a call-leg id; the names are pairwise
\* distinct.
C15_EntryInvariants ==
    "calculate_failure_rates" \in aggDone =>
        /\ \A n \in DOMAIN aggStats :
              LET e == aggStats[n]
                  mine == {i \in DOMAIN aggRecords : Strip(aggRecords[i].name) = e.name}
              IN  /\ e.total_sessions >= 1
                  /\ 0 <= e.failed_sessions /\ e.failed_sessions <= e.total_sessions
                  /\ e.failed_sessions + e.success_sessions = e.total_sessions
                  /\ e.failure_rate.num * e.success_rate.den
                        + e.success_rate.num * e.failure_rate.den
                     = e.failure_rate.den * e.success_rate.den
                  /\ e.total_sessions = Cardinality(mine)
                  /\ e.failed_sessions =
                        Cardinality({i \in mine : aggRecords[i].exotel_call_sid_null})
        /\ \A m, n \in DOMAIN aggStats : m # n => aggStats[m].name # aggStats[n].name

\* two users, one of them from two spellings of the name, some session failed
C15_Witness ==
    /\ "calculate_failure_rates" \in aggDone
    /\ Len(aggStats) = 2
    /\ \E i, j \in DOMAIN aggRecords :
          aggRecords[i].name # aggRecords[j].name /\ j \in SameUser(i)
    /\ \E n \in DOMAIN aggStats :
          aggStats[n].failed_sessions > 0 /\ aggStats[n].success_sessions > 0

\* the records of the batch without a call-leg id
BatchFailures == Cardinality({i \in DOMAIN aggRecords : aggRecords[i].exotel_call_sid_null})

\* C16: the overall_failure_rate of a run is the pooled rate of the whole
\* batch, (records without a call-leg id) / (records), over all the users, not
\* the mean of the users' rates.
C16_OverallRateIsPooled ==
    Len(aggRecords) > 0 =>
        /\ "get_summary_statistics" \in aggDone =>
              aggSummary.overall_failure_rate.num * Len(aggRecords)
                 = BatchFailures * aggSummary.overall_failure_rate.den
        /\ "run_analysis" \in aggDone =>
              aggRunStats.overall_failure_rate.num * Len(aggRecords)
                 = 100 * BatchFailures * aggRunStats.overall_failure_rate.den

IsZero(x) == x.num = 0 /\ x.den # 0

\* C17: on an empty record sequence the aggregation returns no user and the
\* summary has total_users = 0 and every derived statistic equal to 0.0: none
\* raises, no value is undefined.
C17_EmptyGivesZeros ==
    aggRecords = <<>> =>
        /\ "calculate_failure_rates" \in aggDone => aggStats = <<>>
        /\ "process_data" \in aggDone => aggUserStats = <<>>
        /\ "get_summary_statistics" \in aggDone =>
              /\ aggSummary.total_users = 0
              /\ IsZero(aggSummary.overall_failure_rate)
              /\ IsZero(aggSummary.avg_user_failure_rate)
              /\ IsZero(aggSummary.median_user_failure_rate)
              /\ IsZero(aggSummary.max_user_failure_rate)
              /\ IsZero(aggSummary.min_user_failure_rate)
              /\ IsZero(aggSummary.std_user_failure_rate)
        /\ "run_analysis" \in aggDone =>
              aggRunStats.total_users = 0 /\ IsZero(aggRunStats.overall_failure_rate)

(***************************************************************************)
(* The empty fetch: claim C18.                                             *)
(***************************************************************************)
\* C18: when the data source returns no record for a valid window, the run
\* ends with a success outcome that carries an empty report, not with a
\* failure outcome.
C18_EmptyFetchSucceeds ==
    (fnPc = "done" /\ fnData = "empty") => fnResp.status = 200

(***************************************************************************)
(* The connectors: claims C19 and C20.                                     *)
(***************************************************************************)
\* the fetch gave its caller the error of a failed connection
ConnectionErrorSurfaced ==
    connPc = "returned" /\ connResult \in {"DatabaseError", "psycopg2.Error"}

\* C19: a fetch makes at most the configured maximum of connection attempts,
\* tries again after a failed attempt while attempts remain, and gives the
\* connection error to its caller only when the maximum is exhausted.
C19_ErrorOnlyAfterAllAttempts ==
    /\ connAttempts <= connMax
    /\ ConnectionErrorSurfaced => connAttempts = connMax

\* C20: every connection opened during a fetch is closed when control is
\* back at the caller, on every exit path: success, failed attempt and
\* retry, exception in the with body, final failure.
C20_NoConnectionLeftOpen ==
    connPc \in {"idle", "returned"} => connOpen = {}

(***************************************************************************)
(* The deadline of the function: claims C21 and C22.                       *)
(***************************************************************************)
\* the positions of a run at which the fetch has not completed
BeforeFetchCompletes == {"validate", "config", "start", "dates", "testconn", "query"}

\* C21: when the deadline of the request is exceeded before the fetch
\* completes, the run ends without launching the rendering: no visualization
\* is generated and the run does not report success.
C21_LateBeforeFetchAborts ==
    fnLateAt \in BeforeFetchCompletes
        => ("plot" \notin fnIo /\ fnPc # "plot" /\ fnResp.status # 200)

\* C21's case: the deadline passed while the query ran, the query returned rows
\* and the run ended with a timeout error
C21_Witness ==
    /\ fnLateAt = "query"
    /\ fnData = "rows"
    /\ fnPc = "done"
    /\ fnResp.error_type = "TimeoutError"

\* C22: once the fetch has returned data the data is processed (aggregated and
\* summarized) whether or not the deadline has passed in the meantime: the step
\* after the fetch is never a timeout abort, the deadline is enforced again only
\* immediately before the rendering.
C22_FetchedDataProcessed ==
    [][fnPc = "fetched" => fnResp'.error_type # "TimeoutError"]_vars

(***************************************************************************)
(* The display limit: claim C23.                                           *)
(***************************************************************************)
\* C23: a request whose max_users is outside 1..100 is rejected as a validation
\* error before any access to the data source and any write of a report file:
\* it does none of that I/O and it is never answered with success.
C23_LimitRejectedBeforeIO ==
    \A r \in Handlers :
        (req[r] # NoReq /\ req[r].max_users \notin 1..100)
            => /\ io[r] \cap {"run_analysis", "connect", "write", "copy"} = {}
               /\ resp[r].status # 200

(***************************************************************************)
(* A freshness check that cannot read a file: claim C24.                   *)
(***************************************************************************)
\* C24: a request whose freshness check could not read the metadata of a report
\* file is treated as must-regenerate: a request that got as far as the
\* freshness check never ends in an error without having attempted the
\* regeneration, and it does not return the cached paths.
C24_UnreadableMeansRegenerate ==
    \A r \in Handlers :
        ("stat" \in io[r] /\ pc[r] = "raise") => "run_analysis" \in io[r]

(***************************************************************************)
(* The percentages of the buckets: claim C25.                              *)
(***************************************************************************)
\* the users of the frame whose band is the n-th
CountInBand(df, n) ==
    Cardinality({i \in DOMAIN df : Cut(Frac(df[i].failure_rate, 10), TRUE, TRUE) = n})

\* round(count / total_users * 100, 1), and 0.0 when there is no user
ExpectedPercentage(count, total_users) ==
    IF total_users = 0 THEN Frac(0, 10)
    ELSE Frac(RoundHalfEven(1000 * count, total_users), 10)

\* C25: the percentage of every bucket is round(count / total_users * 100, 1),
\* and for total_users = 0 the visualization gives ten percentages of 0.0: no
\* error is raised and no percentage is undefined.
C25_PercentageOfTotal ==
    "create_visualization" \in aggDone =>
        /\ ~aggVis.raised
        /\ DOMAIN aggVis.percentage = 1..10
        /\ \A n \in 1..10 :
              /\ ~IsNaN(aggVis.percentage[n])
              /\ aggVis.percentage[n] =
                    ExpectedPercentage(CountInBand(aggUserStats, n), Len(aggUserStats))

(***************************************************************************)
(* The status of a rejected window: claim C26.                             *)
(***************************************************************************)
\* C26: a request to /api/analyze with a malformed from_date or to_date, or
\* with from_date after to_date, is answered with HTTP status 400, the status
\* raised at the validation, and run_analysis is not called for it.
C26_InvalidWindowAnswered400 ==
    \A r \in Handlers :
        (Running(r) /\ ~ValidWindow(req[r].from_date, req[r].to_date))
            => /\ pc[r] = "raise"
               /\ resp[r].status = 400
               /\ "run_analysis" \notin io[r]

(***************************************************************************)
(* The frame of a cached answer: claim C27.                                *)
(***************************************************************************)
\* handler r has checked the cache for a request without force_refresh, in a
\* process without FORCE_REFRESH, and found the four files of the window fresh
FoundAllFresh(r) ==
    /\ "stat" \in io[r]
    /\ ~force_refresh(r)
    /\ DOMAIN snap[r] = PathSet(r)
    /\ \A p \in PathSet(r) : now - snap[r][p].mt < CacheDurationHours

\* the steps of handler r up to its answer leave the files and the
\* directories as they are
LeavesStorage(r) ==
    (pc[r] \in {"paths", "check"} /\ PathSet(r) \subseteq DOMAIN files /\ pc'[r] # pc[r])
        => (files' = files /\ dirs' = dirs)

\* what holds of a request that has been answered with the four files fresh
CachedAnswerFrame(r) ==
    (FoundAllFresh(r) /\ pc[r] = "return")
        => /\ dec[r] = "Reuse"
           /\ resp[r].cached
           /\ io[r] \cap {"run_analysis", "connect", "write", "copy"} = {}
           /\ FilesAt(PathSet(r)) = snap[r]

\* C27: a request answered from the cache (force_refresh false and all the
\* report files fresh) has no effect on the storage and on the data source:
\* run_analysis is not called, no connection is opened, and the content and
\* the modification time of every report file are those from before.
C27_CachedAnswerHasNoEffect ==
    [][\A r \in Handlers : LeavesStorage(r) /\ CachedAnswerFrame(r)']_vars

\* C27's case: a request without force_refresh has been answered from the
\* cache, the four files of its window being fresh
C27_Witness ==
    \E r \in Handlers :
        /\ FoundAllFresh(r)
        /\ pc[r] = "return"
        /\ dec[r] = "Reuse"
        /\ resp[r].cached

(***************************************************************************)
(* A regeneration makes the next request a cache hit: claim C28.           *)
(***************************************************************************)
\* the four files of the window of r are those that one successful
\* regeneration left, unchanged since: all present, whole, of one generation
LeftByOneRegeneration(r) ==
    /\ PathSet(r) \subseteq DOMAIN files
    /\ \A p, q \in PathSet(r) : files[p].whole /\ files[p].gen = files[q].gen

\* a regeneration that has completed successfully has left the four files of
\* its window present, whole, its own, and fresh
RegenerationLeavesFresh(r) ==
    (pc[r] = "return" /\ dec[r] = "Regenerate")
        => /\ LeftByOneRegeneration(r)
           /\ \A p \in PathSet(r) : files[p].gen = run[r] /\ is_cache_valid(p)

\* a request without force_refresh that finds the files a regeneration left,
\* before the cache duration has elapsed
NextWithinTTL(r) ==
    /\ pc[r] = "check"
    /\ ~req[r].force_refresh
    /\ LeftByOneRegeneration(r)
    /\ \A p \in PathSet(r) : now - files[p].mt < CacheDurationHours

YieldedAndRunning ==
    /\ connWho = "get_connection"
    /\ connYielded
    /\ connPc \in {"body", "while"}

\* C29: within one use of Config.get_connection the retries apply only to the
\* establishing of the connection: once a connection has been yielded to the
\* body of the with statement no further connection attempt is made, whatever
\* error the body raises, and the use ends when the body ends.
C29_NoAttemptAfterYield ==
    [][YieldedAndRunning => (connAttempts' = connAttempts /\ connPc' = "returned")]_vars

(***************************************************************************)
(* The conservation of the records: claim C30.                             *)
(***************************************************************************)
\* the records of the batch without a call-leg id
AbsentCallLeg == Cardinality({i \in DOMAIN aggRecords : aggRecords[i].exotel_call_sid_null})

\* the users account for every record of the batch, once
Conserves(users) ==
    /\ SumTotal(users, Len(users)) = Len(aggRecords)
    /\ SumFailed(users, Len(users)) = AbsentCallLeg

\* C30: an aggregation conserves the records: for every batch the
\* total_sessions of the emitted users add up to the number of the records and
\* their failed_sessions to the number of the records without a call-leg id,
\* in calculate_failure_rates, in process_data and in the totals of
\* get_summary_statistics; no record is dropped or counted for two users.
C30_RecordsConserved ==
    /\ "calculate_failure_rates" \in aggDone => Conserves(aggStats)
    /\ "process_data" \in aggDone => Conserves(aggUserStats)
    /\ "get_summary_statistics" \in aggDone =>
          /\ aggSummary.total_sessions = Len(aggRecords)
          /\ aggSummary.total_failures = AbsentCallLeg

====
